---- MODULE Spec2Model ----
(***************************************************************************)
(* Model of the recurring-task scheduler of server/tasks.go.               *)
(*                                                                         *)
(* tasks.go drives a gocron/v2 scheduler (imported at line 8) through the   *)
(* calls NewScheduler, NewJob, Jobs, Update and Start.  The engine state    *)
(* is the job map of that scheduler (id -> job); the engine operators      *)
(* below follow what those calls do to it:                                 *)
(*   - NewJob validates the definition, draws a fresh id and adds the job; *)
(*   - Jobs returns the jobs ordered by id;                                *)
(*   - Update(id, ...) first retires the job currently held under id (if   *)
(*     any), then validates the new definition, then registers the new job *)
(*     under the SAME id; the two engine requests are separate, so other   *)
(*     requests can be served between them;                                *)
(*   - a job of a started engine is due one interval after registration    *)
(*     and one interval after each run.                                    *)
(***************************************************************************)
EXTENDS Integers, FiniteSets, Sequences, TLC

\* ---------------------------------------------------------------- bounds
MaxNow == 7           \* the clock runs from 1 to MaxNow seconds
MaxCalls == 2         \* reschedule requests issued over a run
MaxInflight == 2      \* runs of one job in flight at a time

\* ------------------------------------------------------- program constants
DefaultTokens == 60        \* 60*time.Second
DefaultArr == 60           \* 60*time.Second
DefaultImages == 86400     \* 24*time.Hour

\* the second registration written with the first one's name
TaskNames_Repeated == <<"Cleanup Tokens", "Cleanup Tokens", "Cleanup Images">>

TaskNames == <<"Cleanup Tokens", "Refresh Arr Queues", "Cleanup Images">>
Names == {"Cleanup Tokens", "Refresh Arr Queues", "Cleanup Images"}
defaultDur == [n \in Names |->
                 IF n = "Cleanup Tokens" THEN DefaultTokens
                 ELSE IF n = "Refresh Arr Queues" THEN DefaultArr
                 ELSE DefaultImages]
\* the closures setupTasks stores: each calls one routine
TaskFuncsLiteral == [n \in Names |->
                 IF n = "Cleanup Tokens" THEN "cleanupTokens"
                 ELSE IF n = "Refresh Arr Queues" THEN "refreshArrQueues"
                 ELSE "cleanupImages"]
NilFunc == "nil"

\* ------------------------------------------------------------- inputs
Procs == {1, 2}                              \* concurrent request handlers
CallNames == {"Cleanup Tokens", "Nonexistent Task"}    \* name arguments: a task, no task
Secs == {-5, 0, 5, 10}                       \* "seconds" of a request body
Overrides == {0, 3}                          \* Config.TASK_SCHEDULE values
\* the configurations tried: at most one task has an override
Configs == {c \in [Names -> Overrides] : Cardinality({n \in Names : c[n] # 0}) <= 1}
TickStep == 2                                \* seconds the clock advances at most
NoJob == 0                                   \* getTask's nil
ZeroTime == 0                                \* time.Time{}

VARIABLES
  setupPc,     \* position of setupTasks
  setupRet,    \* what setupTasks handed back to its caller
  taskFuncs,   \* the global name -> func map (empty before setup)
  config,      \* Config.TASK_SCHEDULE
  jobs,        \* the engine's job map: id -> job
  nextId,      \* the next fresh job id
  started,     \* the engine's execution loop runs
  regFailed,   \* names whose startup registration returned an error
  now,         \* wall clock, seconds
  ran,         \* work functions that were executed at least once
  rs,          \* per handler: the rescheduleTask call it is in
  calls,       \* reschedule requests issued so far
  lastCommit,  \* per name: req.Seconds of the Update that registered last
  inflight,    \* per task name: runs of its work function in flight
  crashed      \* the process was ended by a panic in a work function

vars == <<setupPc, setupRet, taskFuncs, config, jobs, nextId, started,
          regFailed, now, ran, rs, calls, lastCommit, inflight, crashed>>

\* a handler's call: pc, the arguments, the looked-up job id, whether Update
\* was invoked, whether Update found no job under the id, and the result
Idle == [pc |-> "idle", name |-> "", secs |-> 0, jid |-> NoJob,
         upd |-> FALSE, stale |-> FALSE, result |-> "none"]

Init ==
  /\ setupPc = "new"
  /\ setupRet = "none"
  /\ taskFuncs = <<>>
  /\ config \in Configs
  /\ jobs = <<>>
  /\ nextId = 1
  /\ started = FALSE
  /\ regFailed = {}
  /\ now = 1
  /\ ran = {}
  /\ rs = [p \in Procs |-> Idle]
  /\ calls = 0
  /\ lastCommit = [n \in CallNames |-> 0]
  /\ inflight = [n \in Names |-> 0]
  /\ crashed = FALSE

\* ------------------------------------------------------------- helpers
\* every lookup answered with the entry of one fixed task
FuncOf_Fixed(name) ==
  IF "Cleanup Images" \in DOMAIN taskFuncs
  THEN taskFuncs["Cleanup Images"] ELSE NilFunc

\* taskFuncs[name]: a Go map lookup, nil for a missing key
FuncOf(name) == IF name \in DOMAIN taskFuncs THEN taskFuncs[name] ELSE NilFunc

JobsNamed(js, name) == {id \in DOMAIN js : js[id].name = name}

Min(S) == CHOOSE x \in S : \A y \in S : x <= y

\* the engine's validation of a job definition: DurationJob(0) and a nil
\* task function are rejected
ValidDefinition(dur, fn) == dur # 0 /\ fn # NilFunc

\* whether the engine takes a definition: a valid one, except that an
\* engine build that is strict about durations also rejects a negative one
EngineAccepts(dur, fn, strict) ==
  ValidDefinition(dur, fn) /\ (strict => dur > 0)

\* a job registered as due at once instead of one interval later
NewJobRecord_Immediate(name, dur, fn, t) ==
  [name |-> name, interval |-> dur, fn |-> fn,
   nextRun |-> IF started THEN t ELSE ZeroTime]

\* a job as the engine registers it at time t
NewJobRecord(name, dur, fn, t) ==
  [name |-> name, interval |-> dur, fn |-> fn,
   nextRun |-> IF started THEN t + dur ELSE ZeroTime]

Put(js, id, j) == [i \in DOMAIN js \cup {id} |-> IF i = id THEN j ELSE js[i]]
Drop(js, id) == [i \in DOMAIN js \ {id} |-> js[i]]

\* ------------------------------------------------------------ the engine
\* Scheduler.NewJob: on success the job is registered under a fresh id; on
\* an error (an invalid definition, or the engine refusing) nothing is added
EngineNewJob(name, dur, fn, refuse) ==
  IF refuse \/ ~ValidDefinition(dur, fn)
  THEN /\ UNCHANGED <<jobs, nextId>>
  ELSE /\ jobs' = Put(jobs, nextId, NewJobRecord(name, dur, fn, now))
       /\ nextId' = nextId + 1

NewJobFails(dur, fn, refuse) == refuse \/ ~ValidDefinition(dur, fn)

\* Scheduler.Jobs: the job ids in the order the engine lists them
RECURSIVE SortedIds(_)
SortedIds(S) == IF S = {} THEN <<>> ELSE <<Min(S)>> \o SortedIds(S \ {Min(S)})
EngineJobs(js) == SortedIds(DOMAIN js)

\* Job.NextRun of a listed job
EngineNextRun(js, id) == js[id].nextRun

\* ------------------------------------------------------------ setupTasks
\* lines 37-55: construct the engine; on failure log and return, otherwise
\* keep it and define the task funcs
SetupNewScheduler ==
  /\ setupPc = "new"
  /\ \E fail \in BOOLEAN :
       IF fail
       THEN /\ setupPc' = "failed"
            /\ setupRet' = "void"
            /\ UNCHANGED taskFuncs
       ELSE /\ setupPc' = "add1"
            /\ taskFuncs' = TaskFuncsLiteral
            /\ UNCHANGED setupRet
  /\ UNCHANGED <<config, jobs, nextId, started, regFailed, now, ran, rs, calls, lastCommit, inflight, crashed>>

\* the configured schedule never consulted
EffectiveInterval_DefaultOnly(name, dflt) == dflt

\* the interval addTaskToScheduler uses
EffectiveInterval(name, dflt) ==
  IF config[name] # 0 THEN config[name] ELSE dflt

\* addTaskToScheduler(name, defaultDur): TRUE iff it returns an error
addTaskToScheduler(name, dflt, refuse) ==
  /\ EngineNewJob(name, EffectiveInterval(name, dflt), FuncOf(name), refuse)
  /\ regFailed' =
       IF NewJobFails(EffectiveInterval(name, dflt), FuncOf(name), refuse)
       THEN regFailed \cup {name} ELSE regFailed

\* setupTasks returning at the first registration error
SetupPcAfterAdd_Abort(i, err) ==
  IF err THEN "aborted"
  ELSE IF i = 3 THEN "start" ELSE IF i = 1 THEN "add2" ELSE "add3"

\* setupTasks starting the engine right after any registration
SetupPcAfterAdd_StartEarly(i, err) == "start"

\* where setupTasks goes after the i-th registration returned err: the error
\* is only logged, so the next statement follows either way
SetupPcAfterAdd(i, err) == IF i = 3 THEN "start" ELSE IF i = 1 THEN "add2" ELSE "add3"
AddPc(i) == IF i = 1 THEN "add1" ELSE IF i = 2 THEN "add2" ELSE "add3"

\* lines 58-69: the i-th registration; an error is logged and setup goes on
SetupAddTask(i) ==
  /\ setupPc = AddPc(i)
  /\ \E refuse \in BOOLEAN :
       /\ addTaskToScheduler(TaskNames[i], defaultDur[TaskNames[i]], refuse)
       /\ setupPc' = SetupPcAfterAdd(i, TaskNames[i] \in regFailed')
  /\ UNCHANGED <<setupRet, taskFuncs, config, started, now, ran, rs, calls, lastCommit, inflight, crashed>>

\* Scheduler.Start: every registered job becomes due one interval from now
EngineStart(js, t) ==
  [id \in DOMAIN js |-> [js[id] EXCEPT !.nextRun = t + js[id].interval]]

\* lines 71-73
SetupStart ==
  /\ setupPc = "start"
  /\ started' = TRUE
  /\ jobs' = EngineStart(jobs, now)
  /\ setupPc' = "done"
  /\ setupRet' = "void"
  /\ UNCHANGED <<taskFuncs, config, nextId, regFailed, now, ran, rs, calls, lastCommit, inflight, crashed>>

setupTasks == SetupNewScheduler \/ (\E i \in 1..3 : SetupAddTask(i)) \/ SetupStart

\* --------------------------------------------------------------- getters
\* the loop of getAllTasks leaving out a job whose NextRun fails
getAllTasksErr_Skip(js, failing) ==
  LET ids == SelectSeq(EngineJobs(js), LAMBDA i : i \notin failing)
  IN [k \in 1..Len(ids) |->
        [name |-> js[ids[k]].name, nextRun |-> EngineNextRun(js, ids[k])]]

\* lines 93-108, with failing the listed jobs whose NextRun returns an
\* error (the engine no longer finds them): the error is logged, nr keeps
\* the zero time, and the entry is appended all the same
getAllTasksErr(js, failing) ==
  LET listed == EngineJobs(js)
  IN [k \in 1..Len(listed) |->
        [name |-> js[listed[k]].name,
         nextRun |-> IF listed[k] \in failing
                     THEN ZeroTime
                     ELSE EngineNextRun(js, listed[k])]]

\* getAllTasks when every NextRun succeeds: one entry per job the engine
\* lists, in its order
getAllTasks(js) == getAllTasksErr(js, {})

\* getTask without the name comparison: the first listed job
getTask_AnyJob(js, name) ==
  IF DOMAIN js = {} THEN NoJob ELSE Min(DOMAIN js)

\* getTask(name): the first listed job carrying name, or nil
getTask(js, name) ==
  IF JobsNamed(js, name) = {} THEN NoJob ELSE Min(JobsNamed(js, name))

\* the listings Scheduler.Jobs may return for the jobs held: every job once,
\* in any order
Listings(js) ==
  LET listed == EngineJobs(js)
  IN {[k \in 1..Len(listed) |-> listed[pi[k]]] :
        pi \in Permutations(1..Len(listed))}

\* lines 111-120 over a given listing: the first listed job whose name
\* equals name, nil when the loop ends without a match
getTaskListed(listed, js, name) ==
  LET hits == {k \in 1..Len(listed) : js[listed[k]].name = name}
  IN IF hits = {} THEN NoJob ELSE listed[Min(hits)]

\* a listing that takes the first listed job out of the engine
EngineAfterRead_Drops(js) ==
  IF DOMAIN js = {} THEN js ELSE Drop(js, Min(DOMAIN js))

\* the engine's job map after getAllTasks or getTask: they call only the
\* accessors Jobs(), Name(), NextRun() (lines 95-99, 112-113)
EngineAfterRead(js) == js

\* a caller runs getAllTasks and gets the list back
ListTasks(p) ==
  /\ setupPc = "done"
  /\ ~crashed
  /\ rs[p].pc \in {"idle", "returned"}
  /\ calls < MaxCalls
  /\ \E failing \in SUBSET DOMAIN jobs :
       rs' = [rs EXCEPT ![p] =
                [pc |-> "returned", name |-> "", secs |-> 0,
                 jid |-> NoJob, upd |-> FALSE, stale |-> FALSE,
                 result |-> IF Len(getAllTasksErr(jobs, failing)) > 0
                            THEN "listed" ELSE "listedNone"]]
  /\ jobs' = EngineAfterRead(jobs)
  /\ calls' = calls + 1
  /\ UNCHANGED <<setupPc, setupRet, taskFuncs, config, nextId, started,
                 regFailed, now, ran, lastCommit, inflight, crashed>>

\* -------------------------------------------------------- rescheduleTask
\* the nil check without its return: the call goes on to Update
AfterLookup_NoReturn(name, secs, j) ==
  [pc |-> "update", name |-> name, secs |-> secs, jid |-> j,
   upd |-> FALSE, stale |-> FALSE, result |-> "none"]

\* lines 125-127: j == nil returns "no task found", otherwise the call goes
\* on to Update with the id of j
AfterLookup(name, secs, j) ==
  IF j = NoJob
  THEN [pc |-> "returned", name |-> name, secs |-> secs, jid |-> NoJob,
        upd |-> FALSE, stale |-> FALSE, result |-> "NotFound"]
  ELSE [pc |-> "update", name |-> name, secs |-> secs, jid |-> j,
        upd |-> FALSE, stale |-> FALSE, result |-> "none"]

\* Seconds int `binding:"required"`: a missing or zero value fails
BindingAccepts(secs) == secs # 0

\* a request whose body fails the binding is answered without a call of
\* rescheduleTask
RequestRejected(p) ==
  /\ setupPc = "done"
  /\ ~crashed
  /\ rs[p].pc \in {"idle", "returned"}
  /\ calls < MaxCalls
  /\ \E secs \in Secs :
       /\ ~BindingAccepts(secs)
       /\ rs' = [rs EXCEPT ![p] =
                   [pc |-> "returned", name |-> "", secs |-> secs,
                    jid |-> NoJob, upd |-> FALSE, stale |-> FALSE,
                    result |-> "BadRequest"]]
  /\ calls' = calls + 1
  /\ UNCHANGED <<setupPc, setupRet, taskFuncs, config, jobs, nextId, started,
                 regFailed, now, ran, lastCommit, inflight, crashed>>

\* lines 124-127: the lookup, for a request that passed the binding
RescheduleLookup(p) ==
  /\ setupPc = "done"
  /\ ~crashed
  /\ rs[p].pc \in {"idle", "returned"}
  /\ calls < MaxCalls
  /\ \E name \in CallNames, secs \in Secs :
       /\ BindingAccepts(secs)
       /\ rs' = [rs EXCEPT ![p] = AfterLookup(name, secs, getTask(jobs, name))]
  /\ jobs' = EngineAfterRead(jobs)
  /\ calls' = calls + 1
  /\ UNCHANGED <<setupPc, setupRet, taskFuncs, config, nextId, started,
                 regFailed, now, ran, lastCommit, inflight, crashed>>

\* Scheduler.Update, first engine request: the job held under id, if any,
\* is retired
EngineRetire(js, id) == IF id \in DOMAIN js THEN Drop(js, id) ELSE js

\* a replacement registered under a fresh id instead of the id passed
EngineRegister_FreshId(js, id, j) ==
  Put(js, Min({i \in 1..(Cardinality(DOMAIN js) + 1) : i \notin DOMAIN js}), j)

\* Scheduler.Update, second engine request: the replacement is registered
\* under the id the caller passed
EngineRegister(js, id, j) == Put(js, id, j)

\* line 128: Update is entered and retires the job of the looked-up id
RescheduleRetire(p) ==
  /\ rs[p].pc = "update"
  /\ ~crashed
  /\ jobs' = EngineRetire(jobs, rs[p].jid)
  /\ rs' = [rs EXCEPT ![p].pc = "submit", ![p].upd = TRUE,
                      ![p].stale = (rs[p].jid \notin DOMAIN jobs)]
  /\ UNCHANGED <<setupPc, setupRet, taskFuncs, config, nextId, started,
                 regFailed, now, ran, calls, lastCommit, inflight, crashed>>

\* Update's error dropped
RescheduleResult_Swallowed(err) == "ok"

\* what rescheduleTask returns for Update's error
RescheduleResult(err) == IF err THEN "UpdateFailed" ELSE "ok"

\* the definition built from the startup default instead of req.Seconds
RescheduleDefinition_Default(name, secs) ==
  [name |-> name,
   interval |-> IF name \in Names THEN defaultDur[name] ELSE secs,
   fn |-> FuncOf(name)]

\* lines 130-136: the definition rescheduleTask hands to Update:
\* DurationJob(req.Seconds seconds), NewTask(taskFuncs[name]), WithName(name)
RescheduleDefinition(name, secs) ==
  [name |-> name, interval |-> secs, fn |-> FuncOf(name)]

\* the registry entry taken out by the read
TaskFuncsAfterRead_Removes(name) ==
  [n \in DOMAIN taskFuncs \ {name} |-> taskFuncs[n]]

\* line 134: taskFuncs[name] is a read of the Go map; rescheduleTask
\* assigns neither the map nor any of its entries
TaskFuncsAfterRead(name) == taskFuncs

\* lines 128-142: Update validates the definition, registers the
\* replacement under the looked-up id, and the call returns
RescheduleSubmit(p) ==
  LET d == RescheduleDefinition(rs[p].name, rs[p].secs)
  IN /\ rs[p].pc = "submit"
     /\ ~crashed
     /\ \E strict \in BOOLEAN :
          IF ~EngineAccepts(d.interval, d.fn, strict)
          THEN /\ UNCHANGED <<jobs, lastCommit>>
               /\ rs' = [rs EXCEPT ![p].pc = "returned",
                                   ![p].result = RescheduleResult(TRUE)]
          ELSE /\ jobs' = EngineRegister(jobs, rs[p].jid,
                            NewJobRecord(d.name, d.interval, d.fn, now))
               /\ lastCommit' = [lastCommit EXCEPT ![rs[p].name] = rs[p].secs]
               /\ rs' = [rs EXCEPT ![p].pc = "returned",
                                   ![p].result = RescheduleResult(FALSE)]
     /\ taskFuncs' = TaskFuncsAfterRead(rs[p].name)
     /\ UNCHANGED <<setupPc, setupRet, config, nextId, started,
                    regFailed, now, ran, calls, inflight, crashed>>

rescheduleTask(p) == RescheduleLookup(p) \/ RescheduleRetire(p) \/ RescheduleSubmit(p)

\* a reschedule request: bound, then handed to rescheduleTask
RescheduleRequest(p) == RequestRejected(p) \/ rescheduleTask(p)

\* ------------------------------------------------------ the engine's loop
\* the clock advances, never past a pending timer
Tick ==
  /\ started
  /\ ~crashed
  /\ now < MaxNow
  /\ \A id \in DOMAIN jobs : jobs[id].nextRun > now
  /\ now' = Min({now + TickStep, MaxNow} \cup {jobs[id].nextRun : id \in DOMAIN jobs})
  /\ UNCHANGED <<setupPc, setupRet, taskFuncs, config, jobs, nextId, started,
                 regFailed, ran, rs, calls, lastCommit, inflight, crashed>>

\* the engine starts a run of job id: the work function runs in a goroutine
\* of its own and the job is due again one interval later (at once again,
\* for a negative interval)
StartRun(id) ==
  /\ ran' = ran \cup {jobs[id].fn}
  /\ inflight' = [inflight EXCEPT ![jobs[id].name] = @ + 1]
  /\ jobs' = [jobs EXCEPT ![id].nextRun = now + jobs[id].interval]
  /\ UNCHANGED <<setupPc, setupRet, taskFuncs, config, nextId, started,
                 regFailed, now, rs, calls, lastCommit, crashed>>

\* whether the timer of job id is due
Due(id) ==
  /\ started /\ ~crashed
  /\ id \in DOMAIN jobs
  /\ jobs[id].nextRun <= now
  /\ inflight[jobs[id].name] < MaxInflight

\* a due job's timer fires, whatever else is running
RunJob(id) == Due(id) /\ StartRun(id)

\* a run of name's work function returns
FinishRun(n) ==
  /\ ~crashed
  /\ inflight[n] > 0
  /\ inflight' = [inflight EXCEPT ![n] = @ - 1]
  /\ UNCHANGED <<setupPc, setupRet, taskFuncs, config, jobs, nextId, started,
                 regFailed, now, ran, rs, calls, lastCommit, crashed>>

\* a run of name's work function panics: nothing recovers it (no wrapper
\* around the closures of lines 45-55, no listener passed to NewJob), so
\* the process ends
PanicRun(n) ==
  /\ ~crashed
  /\ inflight[n] > 0
  /\ crashed' = TRUE
  /\ UNCHANGED <<setupPc, setupRet, taskFuncs, config, jobs, nextId, started,
                 regFailed, now, ran, rs, calls, lastCommit, inflight>>

Next ==
  \/ setupTasks
  \/ \E p \in Procs : RescheduleRequest(p)
  \/ \E p \in Procs : ListTasks(p)
  \/ Tick
  \/ \E id \in 1..3 : RunJob(id)
  \/ \E n \in Names : FinishRun(n)
  \/ \E n \in Names : PanicRun(n)

Spec == Init /\ [][Next]_vars

\* the engine's loop under fair scheduling: its goroutine keeps waiting on
\* the clock and on the job timers, so the clock advances when no timer is
\* pending and a timer that stays due fires
FairSpec ==
  /\ Spec
  /\ WF_vars(Tick)
  /\ \A id \in 1..3 : WF_vars(RunJob(id))

\* ================================================================ claims
CountNamed(list, name) ==
  Cardinality({k \in 1..Len(list) : list[k].name = name})

\* the step in which handler p's Update registers its replacement
Commits(p) ==
  rs[p].pc = "submit" /\ rs'[p].pc = "returned" /\ rs'[p].result = "ok"

\* the step in which handler p enters rescheduleTask and does its lookup
LooksUp(p) ==
  /\ rs[p].pc \in {"idle", "returned"} /\ calls' = calls + 1 /\ rs'[p] # rs[p]
  /\ rs'[p].result \in {"none", "NotFound"}

\* C1: in every reachable state the engine holds at most one job per task
\* name, and getAllTasks has no two entries with the same name.
C1_UniqueNames ==
  LET list == getAllTasks(jobs)
  IN \A n \in Names \cup CallNames :
       /\ Cardinality(JobsNamed(jobs, n)) <= 1
       /\ CountNamed(list, n) <= 1

C1_Witness ==
  /\ \E p \in Procs : rs[p].result = "ok"
  /\ ran # {}
  /\ Cardinality(DOMAIN jobs) = 3

\* C2: once two reschedules of the same name with 5 and 10 seconds, the
\* only reschedules issued and at least one of which reached Update, have
\* both returned, exactly one job carries the name and its interval is 5 or
\* 10, the one committed last.
C2_BothReturned(p, q) ==
  /\ p # q
  /\ calls = 2
  /\ rs[p].pc = "returned" /\ rs[q].pc = "returned"
  /\ rs[p].name = rs[q].name
  /\ rs[p].secs = 5 /\ rs[q].secs = 10
  /\ (rs[p].upd \/ rs[q].upd)

C2_ConcurrentReschedule ==
  \A p, q \in Procs :
    C2_BothReturned(p, q) =>
      /\ Cardinality(JobsNamed(jobs, rs[p].name)) = 1
      /\ \A id \in JobsNamed(jobs, rs[p].name) :
           /\ jobs[id].interval \in {5, 10}
           /\ jobs[id].interval = lastCommit[rs[p].name]

\* both calls overlapped: one entered Update after the other had retired
\* the job
C2_Witness ==
  \E p, q \in Procs :
    /\ C2_BothReturned(p, q)
    /\ rs[p].result = "ok" /\ rs[q].result = "ok"
    /\ (rs[p].stale \/ rs[q].stale)

\* C3: the step that completes a successful rescheduleTask(name, s) leaves
\* exactly one job with that name, with interval s and the work function
\* stored for name in taskFuncs.
C3_RescheduleReplaces ==
  [][\A p \in Procs :
       Commits(p) =>
         /\ Cardinality(JobsNamed(jobs', rs[p].name)) = 1
         /\ CountNamed(getAllTasks(jobs'), rs[p].name) = 1
         /\ \A id \in JobsNamed(jobs', rs[p].name) :
              /\ jobs'[id].interval = rs[p].secs
              /\ jobs'[id].fn = taskFuncs[rs[p].name]]_vars

\* a rescheduled job whose interval differs from its configured override
C3_Witness ==
  \E p \in Procs :
    /\ rs[p].pc = "returned" /\ rs[p].result = "ok"
    /\ config[rs[p].name] # 0
    /\ \E id \in JobsNamed(jobs, rs[p].name) :
         jobs[id].interval = rs[p].secs /\ rs[p].secs # config[rs[p].name]

\* C4: the step that completes a successful rescheduleTask(name, s) at time
\* t schedules the job's next run at t + s, and getAllTasks then reports,
\* for a positive s, a next-run time within [t, t + s] for name.
C4_NextRunAfterReschedule ==
  [][\A p \in Procs :
       Commits(p) =>
         /\ \A id \in JobsNamed(jobs', rs[p].name) :
              jobs'[id].nextRun = now + rs[p].secs
         /\ \A k \in 1..Len(getAllTasks(jobs')) :
              (getAllTasks(jobs')[k].name = rs[p].name /\ rs[p].secs > 0) =>
                /\ getAllTasks(jobs')[k].nextRun >= now
                /\ getAllTasks(jobs')[k].nextRun <= now + rs[p].secs]_vars

\* a job replaced after time had passed since the engine scheduled it,
\* due s after the replacement
C4_Witness ==
  \E p \in Procs :
    /\ rs[p].pc = "returned" /\ rs[p].result = "ok"
    /\ \E id \in JobsNamed(jobs, rs[p].name) :
         /\ rs[p].secs > 0
         /\ jobs[id].nextRun > now
         /\ jobs[id].nextRun - rs[p].secs > 1

\* C5: a rescheduleTask for a name no job carries returns NotFound in its
\* lookup step, without invoking Update, and the getAllTasks snapshot is the
\* same before and after.
C5_NotFoundUnchanged ==
  [][\A p \in Procs :
       (LooksUp(p) /\ JobsNamed(jobs, rs'[p].name) = {}) =>
         /\ rs'[p].pc = "returned"
         /\ rs'[p].result = "NotFound"
         /\ ~rs'[p].upd
         /\ jobs' = jobs
         /\ getAllTasks(jobs') = getAllTasks(jobs)]_vars

C5_Witness ==
  \E p \in Procs :
    /\ rs[p].pc = "returned" /\ rs[p].result = "NotFound"
    /\ rs[p].name = "Nonexistent Task"
    /\ DOMAIN jobs # {}

C7_AtomicReplace ==
  \A p \in Procs :
    (/\ rs[p].pc \in {"update", "submit"}
     /\ ValidDefinition(rs[p].secs, FuncOf(rs[p].name))) =>
      /\ CountNamed(getAllTasks(jobs), rs[p].name) = 1
      /\ getTask(jobs, rs[p].name) # NoJob

\* C8: once setupTasks has completed without a registration failure, and
\* before any reschedule, each of the three startup names appears in
\* getAllTasks exactly once.
C8_AllRegistered ==
  (setupPc = "done" /\ regFailed = {} /\ calls = 0) =>
    \A n \in Names : CountNamed(getAllTasks(jobs), n) = 1

C8_Witness ==
  /\ setupPc = "done" /\ regFailed = {} /\ calls = 0
  /\ now > 1
  /\ Len(getAllTasks(jobs)) = 3

\* C9: after a registration failure setupTasks goes on (a next step of it
\* is enabled until it is done); once it is done the engine is started, the
\* failed tasks are absent and every other task appears exactly once.
C9_PartialFailure ==
  /\ (regFailed # {} /\ setupPc # "done") => ENABLED setupTasks
  /\ (regFailed # {} /\ setupPc = "done" /\ calls = 0) =>
       /\ started
       /\ \A n \in Names :
            CountNamed(getAllTasks(jobs), n) = IF n \in regFailed THEN 0 ELSE 1

\* exactly one registration failed, the first or the second, and the later
\* tasks are listed
C9_Witness ==
  /\ setupPc = "done" /\ calls = 0 /\ started
  /\ regFailed = {"Refresh Arr Queues"}
  /\ CountNamed(getAllTasks(jobs), "Cleanup Images") = 1
  /\ CountNamed(getAllTasks(jobs), "Cleanup Tokens") = 1
  /\ CountNamed(getAllTasks(jobs), "Refresh Arr Queues") = 0

\* C10 as stated: if engine construction fails, no job is registered, the
\* engine is never started, no work function runs and setupTasks hands a
\* fatal startup error to its caller.
C10_EngineFailureFatal ==
  setupPc = "failed" =>
    /\ DOMAIN jobs = {}
    /\ ~started
    /\ ran = {}
    /\ setupRet = "fatal"

\* C11: every job registered at startup, until a reschedule touches it,
\* has the configured override of its name as interval when that override
\* is non-zero, and the default duration of its name otherwise.
C11_StartupInterval ==
  calls = 0 =>
    \A id \in DOMAIN jobs :
      /\ config[jobs[id].name] # 0 => jobs[id].interval = config[jobs[id].name]
      /\ config[jobs[id].name] = 0 => jobs[id].interval = defaultDur[jobs[id].name]

\* an overridden job next to one on its default
C11_Witness ==
  /\ setupPc = "done" /\ calls = 0
  /\ \E id \in DOMAIN jobs :
       config[jobs[id].name] = 3 /\ jobs[id].interval = 3
  /\ \E id \in DOMAIN jobs :
       config[jobs[id].name] = 0 /\ jobs[id].interval = 86400

\* C12: rescheduleTask is only ever executed with a positive number of
\* seconds, and no active job has a non-positive interval.
C12_PositiveSecondsOnly ==
  /\ \A p \in Procs :
       (\/ rs[p].pc \in {"update", "submit"}
        \/ rs[p].pc = "returned"
             /\ rs[p].result \in {"NotFound", "ok", "UpdateFailed"})
       => rs[p].secs > 0
  /\ \A id \in DOMAIN jobs : jobs[id].interval > 0

\* C13: the engine's loop is started only after all three startup
\* registrations have been attempted (each either registered a job or
\* returned an error), and no work function has executed or is executing
\* before the loop is started.
C13_StartAfterRegistrations ==
  /\ started => (nextId - 1) + Cardinality(regFailed) = Len(TaskNames)
  /\ started => setupPc = "done"
  /\ (ran # {} \/ \E n \in Names : inflight[n] > 0) => started

\* a work function ran after a startup in which one registration failed
C13_Witness ==
  /\ started /\ ran # {} /\ regFailed # {}
  /\ (nextId - 1) + Cardinality(regFailed) = 3

\* C14: whichever of the listed jobs fail their next-run query, getAllTasks
\* returns as many entries as there are active jobs, and every active job
\* has its entry, with its name and with the zero next-run time if its
\* query failed and its next-run time otherwise.
C14_OneEntryPerJob ==
  \A failing \in SUBSET DOMAIN jobs :
    LET l == getAllTasksErr(jobs, failing)
        entries == {l[k] : k \in 1..Len(l)}
    IN /\ Len(l) = Cardinality(DOMAIN jobs)
       /\ \A id \in DOMAIN jobs :
            [name |-> jobs[id].name,
             nextRun |-> IF id \in failing THEN ZeroTime
                         ELSE jobs[id].nextRun] \in entries

\* three running jobs, one of which fails its next-run query and is listed
\* with the zero time
C14_Witness ==
  /\ started /\ Cardinality(DOMAIN jobs) = 3
  /\ \E id \in DOMAIN jobs :
       /\ jobs[id].nextRun # ZeroTime
       /\ Len(getAllTasksErr(jobs, {id})) = 3
       /\ \E k \in 1..3 :
            getAllTasksErr(jobs, {id})[k] =
              [name |-> jobs[id].name, nextRun |-> ZeroTime]

\* C15: a panic of a work function does not stop the engine's loop: once
\* the loop is started, every job whose timer is due can still be run.
C15_LoopSurvivesPanic ==
  \A id \in DOMAIN jobs :
    (/\ started
     /\ jobs[id].nextRun <= now
     /\ inflight[jobs[id].name] < MaxInflight)
    => ENABLED RunJob(id)

\* C16: two runs of the same job never overlap: at most one run of a task's
\* work function is in flight at any time.
C16_NoOverlap == \A n \in Names : inflight[n] <= 1

\* while a run of some work function is in flight, a rescheduleTask call
\* that is under way can take its next step, and a due job of another name
\* can be run
C17_OthersNotBlocked ==
  \A n \in Names :
    (inflight[n] > 0 /\ ~crashed) =>
      /\ \A p \in Procs :
           /\ rs[p].pc = "update" => ENABLED RescheduleRetire(p)
           /\ rs[p].pc = "submit" => ENABLED RescheduleSubmit(p)
      /\ \A id \in DOMAIN jobs :
           (jobs[id].name # n /\ jobs[id].nextRun <= now
              /\ inflight[jobs[id].name] < MaxInflight)
           => ENABLED RunJob(id)

\* while a run of a job's work function is in flight, the job's next tick
\* waits for it
C17_HangingJobDelayed ==
  \A id \in DOMAIN jobs :
    (inflight[jobs[id].name] > 0 /\ ~crashed) => ~ENABLED RunJob(id)

\* C17: while the work function of one job has not returned, the calls for
\* other jobs still make progress and the other jobs still run when due;
\* only the hanging job's own next tick is delayed.
C17_HangOnlyDelaysItself == C17_OthersNotBlocked /\ C17_HangingJobDelayed

\* C18: a second getTask(name) on the job set a rescheduleTask call has
\* just looked its job up in returns what the call's own lookup returned,
\* in whatever order the engine lists the jobs: nil both times, or both
\* times the id of a job that carries the name asked for.
C18_LookupIdempotent ==
  [][\A p \in Procs :
       LooksUp(p) =>
         /\ jobs' = jobs
         /\ \A o \in Listings(jobs') :
              LET r == getTaskListed(o, jobs', rs'[p].name)
              IN /\ r = rs'[p].jid
                 /\ r = NoJob \/ (r \in DOMAIN jobs'
                                    /\ jobs'[r].name = rs'[p].name)]_vars

\* a call looked its job up among three jobs, and a second lookup on the
\* same job set returns the same id; a missing name is absent again
C18_Witness ==
  /\ Cardinality(DOMAIN jobs) = 3
  /\ \E p \in Procs :
       /\ rs[p].pc = "update" /\ rs[p].jid # NoJob
       /\ \A o \in Listings(jobs) :
            getTaskListed(o, jobs, rs[p].name) = rs[p].jid
  /\ \A o \in Listings(jobs) :
       getTaskListed(o, jobs, "Nonexistent Task") = NoJob

\* C19 as claimed: the step that completes a successful rescheduleTask
\* leaves the name on a job whose id differs from the id of the job it
\* replaced, and the old id denotes no active job any more.
C19_IdentityChanges ==
  [][\A p \in Procs :
       Commits(p) =>
         /\ \A id \in JobsNamed(jobs', rs[p].name) : id # rs[p].jid
         /\ rs[p].jid \notin DOMAIN jobs']_vars

\* C19 as amended: the step that completes a successful rescheduleTask
\* leaves the name on exactly one job, registered under the very id of the
\* job it replaced, so the old id still denotes the active job.
C19_IdentityKept ==
  [][\A p \in Procs :
       Commits(p) =>
         /\ JobsNamed(jobs', rs[p].name) = {rs[p].jid}
         /\ rs[p].jid \in DOMAIN jobs'
         /\ rs[p].jid # NoJob]_vars

\* a call that retired the job it had looked up has returned, and the job
\* of its name, with the requested interval, is held under the looked-up id
C19_Witness ==
  \E p \in Procs :
    /\ rs[p].pc = "returned" /\ rs[p].result = "ok" /\ ~rs[p].stale
    /\ JobsNamed(jobs, rs[p].name) = {rs[p].jid}
    /\ jobs[rs[p].jid].interval = rs[p].secs
    /\ rs[p].secs # defaultDur[rs[p].name]

\* C20 as claimed: once a rescheduleTask call with a positive number of
\* seconds has returned for a name whose startup registration failed, a
\* job of that name is back in the job set.
C20_RescheduleRestores ==
  \A p \in Procs :
    (/\ rs[p].pc = "returned"
     /\ rs[p].result \in {"NotFound", "ok", "UpdateFailed"}
     /\ rs[p].name \in regFailed /\ rs[p].secs > 0)
    => JobsNamed(jobs, rs[p].name) # {}

\* C20 as amended: a name whose startup registration failed has no job for
\* the rest of the process's life, and every rescheduleTask call for it
\* returns NotFound from its lookup without invoking Update.
C20_MissingUntilRestart ==
  /\ \A n \in regFailed :
       JobsNamed(jobs, n) = {} /\ getTask(jobs, n) = NoJob
  /\ \A p \in Procs :
       (rs[p].pc # "idle" /\ rs[p].name \in regFailed) =>
         /\ rs[p].pc = "returned" /\ rs[p].result = "NotFound"
         /\ ~rs[p].upd

\* a manual reschedule with a positive interval returned NotFound for a
\* task that failed to register, while the other two jobs run
C20_Witness ==
  /\ started /\ Cardinality(DOMAIN jobs) = 2
  /\ \E p \in Procs :
       /\ rs[p].pc = "returned" /\ rs[p].result = "NotFound"
       /\ rs[p].name \in regFailed /\ rs[p].secs > 0
       /\ JobsNamed(jobs, rs[p].name) = {}

\* C21: every execution of a job moves its next-run time to one interval
\* later, and under fair scheduling of the engine's loop an active job whose
\* timer is due is eventually run (or replaced), for a job with a positive
\* interval that the engine may still start a run of.
C21_RunsRepeatedly ==
  /\ [][\A id \in DOMAIN jobs :
          (inflight'[jobs[id].name] = inflight[jobs[id].name] + 1
             /\ id \in DOMAIN jobs') =>
            jobs'[id].nextRun = now + jobs[id].interval]_vars
  /\ \A id \in 1..3 :
       (started /\ id \in DOMAIN jobs /\ jobs[id].nextRun <= now
          /\ jobs[id].interval > 0)
         ~> (\/ id \notin DOMAIN jobs
             \/ jobs[id].nextRun > now
             \/ jobs[id].interval <= 0
             \/ inflight[jobs[id].name] >= MaxInflight)

\* C22: the taskFuncs registry changes only in the step of setupTasks that
\* assigns it; every later step, and in particular every step of a
\* rescheduleTask call and every job execution, leaves it as it is, so a
\* completed reschedule finds the same work function bound to its name as
\* before.
C22_RegistryReadOnly ==
  [][/\ taskFuncs' # taskFuncs =>
          (setupPc = "new" /\ setupPc' = "add1"
             /\ taskFuncs' = TaskFuncsLiteral)
     /\ \A p \in Procs :
          (rs'[p] # rs[p] /\ rs'[p].name \in Names) =>
            /\ rs'[p].name \in DOMAIN taskFuncs'
            /\ taskFuncs'[rs'[p].name] = taskFuncs[rs'[p].name]
     /\ ran' # ran => taskFuncs' = taskFuncs]_vars

\* two reschedules of a task have succeeded, its work function has run,
\* and the registry is still the one setupTasks built
C22_Witness ==
  /\ taskFuncs = TaskFuncsLiteral
  /\ calls = 2 /\ ran # {}
  /\ \A p \in Procs :
       /\ rs[p].pc = "returned" /\ rs[p].result = "ok"
       /\ rs[p].name \in DOMAIN taskFuncs

\* C23: when the only rescheduleTask call made so far has returned
\* UpdateFailed, the job it looked up is still active under its name with
\* the interval it had before the call.
C23_FailedUpdateKeepsJob ==
  \A p \in Procs :
    (calls = 1 /\ rs[p].pc = "returned" /\ rs[p].result = "UpdateFailed") =>
      /\ JobsNamed(jobs, rs[p].name) = {rs[p].jid}
      /\ jobs[rs[p].jid].interval =
           IF config[rs[p].name] # 0 THEN config[rs[p].name]
           ELSE defaultDur[rs[p].name]

\* C24: every step of a rescheduleTask(name, s) call, whether the call
\* succeeds or fails, leaves every job of another name in place under its
\* id with its interval, work function and next-run time, and adds no job
\* of another name.
C24_OtherJobsUntouched ==
  [][\A p \in Procs :
       rs'[p] # rs[p] =>
         /\ \A id \in DOMAIN jobs :
              jobs[id].name # rs'[p].name =>
                (id \in DOMAIN jobs' /\ jobs'[id] = jobs[id])
         /\ \A id \in DOMAIN jobs' :
              jobs'[id].name # rs'[p].name =>
                (id \in DOMAIN jobs /\ jobs[id] = jobs'[id])]_vars

\* one call for Cleanup Tokens succeeded and one failed, and the two other
\* jobs are as the engine scheduled them at startup
C24_Witness ==
  /\ started /\ now = 1
  /\ \E p, q \in Procs :
       /\ rs[p].pc = "returned" /\ rs[p].result = "ok"
       /\ rs[q].pc = "returned" /\ rs[q].result = "UpdateFailed"
       /\ rs[p].name = "Cleanup Tokens" /\ rs[q].name = "Cleanup Tokens"
  /\ \A n \in Names \ {"Cleanup Tokens"} :
       \E id \in DOMAIN jobs :
         /\ jobs[id].name = n
         /\ jobs[id].interval = defaultDur[n]
         /\ jobs[id].fn = taskFuncs[n]
         /\ jobs[id].nextRun = 1 + defaultDur[n]

\* C25: in every reachable state every active job's name is a key of
\* taskFuncs and the job's work function is taskFuncs[name], and whenever
\* the engine starts a run of a job, the function it executes is
\* taskFuncs[name] of that job's name.
C25_JobsBoundToRegistry ==
  /\ [](\A id \in DOMAIN jobs :
          /\ jobs[id].name \in DOMAIN taskFuncs
          /\ jobs[id].fn = taskFuncs[jobs[id].name]
          /\ jobs[id].fn # NilFunc)
  /\ [][\A n \in Names :
          inflight'[n] > inflight[n] =>
            (n \in DOMAIN taskFuncs /\ ran' = ran \cup {taskFuncs[n]})]_vars

\* a rescheduled job ran next to the two jobs registered at startup, each
\* bound to the function of its own name
C25_Witness ==
  /\ Cardinality(DOMAIN jobs) = 3
  /\ \E p \in Procs :
       /\ rs[p].pc = "returned" /\ rs[p].result = "ok"
       /\ taskFuncs[rs[p].name] \in ran
       /\ jobs[rs[p].jid].fn = taskFuncs[rs[p].name]
  /\ \A id \in DOMAIN jobs : jobs[id].fn = taskFuncs[jobs[id].name]
  /\ Cardinality({jobs[id].fn : id \in DOMAIN jobs}) = 3

\* the step in which caller p runs getAllTasks
Lists(p) ==
  /\ rs[p].pc \in {"idle", "returned"} /\ calls' = calls + 1
  /\ rs'[p].result \in {"listed", "listedNone"}
  /\ \A q \in Procs \ {p} : rs'[q] = rs[q]

\* C26: a step that runs getAllTasks, and the step of rescheduleTask that
\* runs getTask, leave the engine's job set as it is (the same ids with the
\* same names, intervals and next-run times), draw no job id, and start no
\* run of any job.
C26_GettersReadOnly ==
  [][\A p \in Procs :
       (Lists(p) \/ LooksUp(p)) =>
         /\ DOMAIN jobs' = DOMAIN jobs
         /\ \A id \in DOMAIN jobs :
              /\ jobs'[id].name = jobs[id].name
              /\ jobs'[id].interval = jobs[id].interval
              /\ jobs'[id].nextRun = jobs[id].nextRun
         /\ nextId' = nextId
         /\ inflight' = inflight /\ ran' = ran]_vars

\* one caller has listed three running jobs while another is past its
\* getTask lookup, and all three jobs are still there
C26_Witness ==
  /\ started /\ Cardinality(DOMAIN jobs) = 3
  /\ \E p, q \in Procs :
       /\ rs[p].pc = "returned" /\ rs[p].result = "listed"
       /\ rs[q].pc = "update" /\ rs[q].jid \in DOMAIN jobs

====
